---- MODULE Spec2Model ----
(***************************************************************************)
(* Model of auto_nag/scripts/no_crashes.py (class NoCrashes).              *)
(*                                                                         *)
(* A run of NoCrashes.get_bugs: the Bugzilla query feeds bughandler with   *)
(* bugs, get_stats packs the collected signatures into chunks (chunkify),  *)
(* sends one SuperSearch per chunk, the handlers of the searches remove    *)
(* the signatures that crashed from the shared set, get_stats waits for    *)
(* the searches and get_bugs_without_crashes picks the bugs to close.      *)
(***************************************************************************)
EXTENDS Integers, Sequences, FiniteSets, TLC

VARIABLES
    pc,         \* position of get_bugs: "collect", "resolve", "done", "failed"
    fetched,    \* ids of the bugs the Bugzilla query has handed to bughandler
    data,       \* get_data(): [signatures |-> set, ids |-> bugid -> set]
    summaries,  \* self.summaries: str(bugid) -> summary
    called,     \* the arguments chunkify has been called with, in order
    order,      \* the order in which chunkify iterated over its argument
    chunks,     \* chunks returned by chunkify (sequence of sequences)
    size,       \* second value returned by chunkify
    searches,   \* one record per SuperSearch: its chunk, state and work left
    exc,        \* the exception that left get_bugs, or "none"
    bugs        \* the mapping returned by get_bugs (empty until it returns)

vars == <<pc, fetched, data, summaries, called, order, chunks, size,
          searches, exc, bugs>>

(***************************************************************************)
(* Bounds and inputs.                                                      *)
(***************************************************************************)
\* number of bugs the Bugzilla query can return
MaxBugs == 2

\* the budget of one chunk
M == 1536

\* the crash signatures that can appear in a bug, named by their length
Signature == {"s500", "s536", "s1000", "s1536", "s2000"}

\* the signatures the bugs of the Bugzilla query carry
BugSignature == {"s500", "s536", "s1000", "s2000"}

\* len(s)
len(s) ==
    CASE s = "s500" -> 500
      [] s = "s536" -> 536
      [] s = "s1000" -> 1000
      [] s = "s1536" -> 1536
      [] s = "s2000" -> 2000

BugIds == 1..MaxBugs

\* utils.get_signatures(field): a set of distinct signatures, possibly empty
get_signatures == SUBSET BugSignature

\* str(id)
str(id) == ToString(id)

\* self.get_summary(bug)
get_summary(id) == <<"summary", id>>

(***************************************************************************)
(* chunkify                                                                *)
(***************************************************************************)
\* the orders in which a Python set can be iterated
Orders(S) ==
    {o \in [1..Cardinality(S) -> S] : \A i, j \in 1..Cardinality(S) : i # j => o[i] # o[j]}

RECURSIVE SumLen(_)
\* sum(len(s) for s in signatures)
SumLen(sigs) ==
    IF sigs = <<>> THEN 0 ELSE len(Head(sigs)) + SumLen(Tail(sigs))

\* n = total // M + 1
NumPrealloc(sigs) == SumLen(sigs) \div M + 1

\* res = [[M, []] for _ in range(n)]
Prealloc(n) == [i \in 1..n |-> [cap |-> M, members |-> <<>>]]

\* TooLong with >= in place of >
TooLongOffByOne(L) == L >= M

\* if L > M: continue
TooLong(L) == L > M

\* Fits comparing with the budget in place of the capacity left
FitsBudget(L, cap) == L < M

\* if L < i[0]
Fits(L, cap) == L < cap

\* FirstFit taking the last batch with room in place of the first
LastFit(res, L) ==
    LET fit == {i \in 1..Len(res) : Fits(L, res[i].cap)}
    IN  IF fit = {} THEN 0 ELSE CHOOSE i \in fit : \A j \in fit : i >= j

\* for i in res: if L < i[0]: ... break   (0 when the loop ends with added = False)
FirstFit(res, L) ==
    LET fit == {i \in 1..Len(res) : Fits(L, res[i].cap)}
    IN  IF fit = {} THEN 0 ELSE CHOOSE i \in fit : \A j \in fit : i <= j

\* Place without the break: s goes to every batch with room
PlaceNoBreak(res, s) ==
    LET L == len(s)
    IN  IF TooLong(L) THEN res
        ELSE IF FirstFit(res, L) # 0
             THEN [i \in 1..Len(res) |->
                     IF Fits(L, res[i].cap)
                     THEN [cap |-> res[i].cap - L, members |-> Append(res[i].members, s)]
                     ELSE res[i]]
             ELSE Append(res, [cap |-> M - L, members |-> <<s>>])

\* the body of the loop `for s in signatures`
Place(res, s) ==
    LET L == len(s)
        i == FirstFit(res, L)
    IN  IF TooLong(L) THEN res
        ELSE IF i # 0
             THEN [res EXCEPT ![i] = [cap |-> @.cap - L, members |-> Append(@.members, s)]]
             ELSE Append(res, [cap |-> M - L, members |-> <<s>>])

RECURSIVE Pack(_, _, _)
\* res after the first k iterations of the loop over sigs, n batches preallocated
Pack(sigs, n, k) ==
    IF k = 0 THEN Prealloc(n) ELSE Place(Pack(sigs, n, k - 1), sigs[k])

\* res = [x for _, x in res if len(x)]
NonEmpty(res) ==
    LET kept == SelectSeq(res, LAMBDA b : Len(b.members) > 0)
    IN  [i \in 1..Len(kept) |-> kept[i].members]

\* max(len(x) for x in res); 0 stands for the value of the call that raises
MaxLen(res) ==
    IF Len(res) = 0 THEN 0
    ELSE CHOOSE m \in {Len(res[i]) : i \in 1..Len(res)} :
            \A i \in 1..Len(res) : Len(res[i]) <= m

\* MaxRaises of a max() given a default
MaxNeverRaises(res) == FALSE

\* max() of an empty sequence raises ValueError
MaxRaises(res) == Len(res) = 0

\* chunkify(signatures), signatures iterated in the order sigs
chunkify(sigs) ==
    LET packed == Pack(sigs, NumPrealloc(sigs), Len(sigs))
        res == NonEmpty(packed)
    IN  IF MaxRaises(res)
        THEN [raises |-> TRUE, packed |-> packed, chunks |-> <<>>, size |-> 0]
        ELSE [raises |-> FALSE, packed |-> packed, chunks |-> res, size |-> MaxLen(res)]

(***************************************************************************)
(* The run.                                                                *)
(***************************************************************************)
\* __init__ and get_data
Init ==
    /\ pc = "collect"
    /\ fetched = {}
    /\ data = [signatures |-> {}, ids |-> <<>>]
    /\ summaries = <<>>
    /\ called = <<>>
    /\ order = <<>>
    /\ chunks = <<>>
    /\ size = 0
    /\ searches = <<>>
    /\ exc = "none"
    /\ bugs = <<>>

\* d with d[k] = v
Put(d, k, v) == [x \in DOMAIN d \cup {k} |-> IF x = k THEN v ELSE d[x]]

\* bughandler(bug, data) for the next bug of the Bugzilla query
bughandler(id) ==
    /\ pc = "collect"
    /\ id \notin fetched
    /\ fetched' = fetched \cup {id}
    /\ \E hasField \in BOOLEAN, sgns \in get_signatures :
          IF ~hasField
          THEN UNCHANGED <<data, summaries>>
          ELSE /\ summaries' = Put(summaries, str(id), get_summary(id))
               /\ data' = [signatures |-> data.signatures \cup sgns,
                           ids |-> Put(data.ids, id, sgns)]
    /\ UNCHANGED <<pc, called, order, chunks, size, searches, exc, bugs>>

\* searches.append(SuperSearch(params, handler, handlerdata=signatures)) per chunk
MakeSearches(cs) ==
    [i \in 1..Len(cs) |-> [chunk |-> cs[i], st |-> "sent",
                            json |-> [errors |-> FALSE, facets |-> {}], todo |-> {}]]

\* the first part of get_stats: chunkify and the creation of the searches
get_stats ==
    /\ pc = "collect"
    /\ \E o \in Orders(data.signatures) :
          LET c == chunkify(o) IN
          /\ called' = Append(called, data.signatures)
          /\ IF c.raises
             THEN /\ pc' = "failed"
                  /\ exc' = "ValueError"
                  /\ UNCHANGED <<chunks, size, searches>>
             ELSE /\ pc' = "resolve"
                  /\ chunks' = c.chunks
                  /\ size' = c.size
                  /\ searches' = MakeSearches(c.chunks)
                  /\ UNCHANGED exc
    /\ UNCHANGED <<fetched, data, summaries, order, bugs>>

\* the signatures of a chunk
Terms(chunk) == {chunk[k] : k \in 1..Len(chunk)}

\* the answers Socorro can give to the query of a chunk with _facets_size = sz
Replies(chunk, sz) ==
    {[errors |-> FALSE, facets |-> f] :
        f \in {x \in SUBSET Terms(chunk) : Cardinality(x) <= sz}}
    \cup {[errors |-> TRUE, facets |-> {}]}

\* HasErrors of a handler that ignores the error flag
ErrorsIgnored(json) == FALSE

\* if json["errors"]: raise SocorroError()
HasErrors(json) == json.errors

\* json["facets"].get("signature", {}): the terms the handler goes through
FacetTerms(json) == json.facets

\* data.remove(term) raises KeyError when term is not in data
RemoveRaises(signatures, term) == term \notin signatures

\* Remove rebuilding the set from every known signature
RemoveFromAll(signatures, term) == BugSignature \ {term}

\* data.remove(term)
Remove(signatures, term) == signatures \ {term}

\* handler(json, data) up to its loop, when the answer of search i arrives
handler(i) ==
    /\ pc = "resolve"
    /\ i \in DOMAIN searches
    /\ searches[i].st = "sent"
    /\ \E json \in Replies(searches[i].chunk, size) :
          searches' = [searches EXCEPT ![i] =
              IF HasErrors(json)
              THEN [@ EXCEPT !.st = "SocorroError", !.json = json]
              ELSE [@ EXCEPT !.st = IF FacetTerms(json) = {} THEN "done" ELSE "running",
                             !.json = json, !.todo = FacetTerms(json)]]
    /\ UNCHANGED <<pc, fetched, data, summaries, called, order, chunks, size, exc, bugs>>

\* one iteration of the loop of handler for search i: data.remove(facet["term"])
handler_remove(i) ==
    /\ pc = "resolve"
    /\ i \in DOMAIN searches
    /\ searches[i].st = "running"
    /\ \E term \in searches[i].todo :
          IF RemoveRaises(data.signatures, term)
          THEN /\ searches' = [searches EXCEPT ![i].st = "KeyError"]
               /\ UNCHANGED data
          ELSE /\ data' = [data EXCEPT !.signatures = Remove(@, term)]
               /\ searches' = [searches EXCEPT
                     ![i].todo = @ \ {term},
                     ![i].st = IF searches[i].todo = {term} THEN "done" ELSE "running"]
    /\ UNCHANGED <<pc, fetched, summaries, called, order, chunks, size, exc, bugs>>

\* bug_sgns < signatures
ProperSubset(a, b) == a \subseteq b /\ a # b

\* get_bugs_without_crashes(data)
get_bugs_without_crashes(d) ==
    LET keys == {str(bugid) : bugid \in {b \in DOMAIN d.ids : ProperSubset(d.ids[b], d.signatures)}}
    IN  [bugid \in keys |-> [id |-> bugid, summary |-> summaries[bugid]]]

\* searches whose handler raised
Raised(i) == searches[i].st \in {"SocorroError", "KeyError"}

\* for s in searches: s.wait(), then get_bugs_without_crashes and the return
wait ==
    /\ pc = "resolve"
    /\ \/ /\ \A i \in DOMAIN searches : searches[i].st = "done"
          /\ pc' = "done"
          /\ bugs' = get_bugs_without_crashes(data)
          /\ UNCHANGED exc
       \/ \E i \in DOMAIN searches :
             /\ Raised(i)
             /\ \A j \in 1..(i - 1) : searches[j].st = "done"
             /\ pc' = "failed"
             /\ exc' = searches[i].st
             /\ UNCHANGED bugs
    /\ UNCHANGED <<fetched, data, summaries, called, order, chunks, size, searches>>

Next ==
    \/ \E id \in BugIds : bughandler(id)
    \/ get_stats
    \/ \E i \in DOMAIN searches : handler(i)
    \/ \E i \in DOMAIN searches : handler_remove(i)
    \/ wait

Spec == Init /\ [][Next]_vars

(***************************************************************************)
(* chunkify on its own: any set of signatures, iterated in any order.      *)
(***************************************************************************)
InitChunkify ==
    /\ pc = "chunkify"
    /\ fetched = {}
    /\ data = [signatures |-> {}, ids |-> <<>>]
    /\ summaries = <<>>
    /\ called = <<>>
    /\ order = <<>>
    /\ chunks = <<>>
    /\ size = 0
    /\ searches = <<>>
    /\ exc = "none"
    /\ bugs = <<>>

\* chunkify(signatures) for a set of signatures and an iteration order of it
chunkify_call ==
    /\ pc = "chunkify"
    /\ \E S \in SUBSET Signature : \E o \in Orders(S) :
          LET c == chunkify(o) IN
          /\ called' = Append(called, S)
          /\ order' = o
          /\ chunks' = c.chunks
          /\ size' = c.size
          /\ pc' = IF c.raises THEN "raised" ELSE "returned"
          /\ exc' = IF c.raises THEN "ValueError" ELSE "none"
    /\ UNCHANGED <<fetched, data, summaries, searches, bugs>>

NextChunkify == chunkify_call

SpecChunkify == InitChunkify /\ [][NextChunkify]_vars

(***************************************************************************)
(* Properties.                                                             *)
(***************************************************************************)
\* the argument of the call of chunkify
Universe == called[1]

\* the signatures of the argument that are not longer than M
Fitting == {s \in Universe : len(s) <= M}

\* the places of s in the chunks
Places(s) == {<<i, k>> \in (DOMAIN chunks) \X (1..Cardinality(Signature)) :
                 k <= Len(chunks[i]) /\ chunks[i][k] = s}

RECURSIVE SetLen(_)
\* the total length of a set of signatures
SetLen(S) ==
    IF S = {} THEN 0
    ELSE LET s == CHOOSE x \in S : TRUE IN len(s) + SetLen(S \ {s})

\* S can be split into k batches of total length at most M
CanPack(S, k) ==
    \E f \in [S -> 1..k] : \A b \in 1..k : SetLen({s \in S : f[s] = b}) <= M

\* the terms of the facets of the answers the handlers have received
Crashed == UNION {FacetTerms(searches[i].json) : i \in DOMAIN searches}

\* C1: once get_bugs has returned, a bug recorded with at least one signature
\* is in the returned mapping iff all its signatures are still in
\* data['signatures'] (the case of a bug holding the whole surviving set included).
DecisionCorrectness ==
    pc = "done" =>
        \A b \in DOMAIN data.ids :
            data.ids[b] # {} =>
                (str(b) \in DOMAIN bugs <=> data.ids[b] \subseteq data.signatures)

\* C2: a bug recorded with no signature is never in the mapping get_bugs returns.
NoSignatureNeverCandidate ==
    pc = "done" =>
        \A b \in DOMAIN data.ids : data.ids[b] = {} => str(b) \notin DOMAIN bugs

\* C3: every chunk returned by chunkify has a total length of at most M, and
\* after every iteration of the packing loop the capacity of each batch is M
\* minus the total length of its members and is not negative.
CapacityInvariant ==
    pc # "chunkify" =>
        /\ \A i \in DOMAIN chunks : SumLen(chunks[i]) <= M
        /\ \A k \in 0..Len(order) :
              LET res == Pack(order, NumPrealloc(order), k) IN
              \A i \in DOMAIN res :
                  /\ res[i].cap = M - SumLen(res[i].members)
                  /\ res[i].cap >= 0

\* C3 witness: chunkify returned several chunks, one of them with several members.
CapacityWitness ==
    /\ pc = "returned"
    /\ Len(chunks) >= 2
    /\ \E i \in DOMAIN chunks : Len(chunks[i]) >= 2

\* C4: every signature of the argument that is not longer than M is at exactly
\* one place of the returned chunks, every longer one at none, and the chunks
\* hold nothing else.
Completeness ==
    pc = "returned" =>
        /\ \A s \in Universe :
              Cardinality(Places(s)) = IF len(s) <= M THEN 1 ELSE 0
        /\ \A i \in DOMAIN chunks : Terms(chunks[i]) \subseteq Universe

\* C4 witness: chunkify returned for an argument with a signature of length M,
\* a longer one and shorter ones.
CompletenessWitness ==
    /\ pc = "returned"
    /\ {"s1536", "s2000", "s500", "s1000"} \subseteq Universe
    /\ Len(chunks) >= 2

\* C5: once the answer to a search had its error flag set, get_bugs returns no
\* mapping, whatever the other searches answered and in whatever order: it can
\* only end with SocorroError, and does as soon as every answer has arrived.
FatalPropagation ==
    (\E i \in DOMAIN searches : searches[i].json.errors) =>
        /\ pc # "done"
        /\ bugs = <<>>
        /\ pc = "failed" => exc = "SocorroError"
        /\ (pc = "resolve" /\ \A i \in DOMAIN searches : searches[i].st \notin {"sent", "running"})
              => ENABLED wait

\* C5 witness: get_bugs failed with SocorroError after another search had
\* completed and removed a signature.
FatalWitness ==
    /\ pc = "failed"
    /\ exc = "SocorroError"
    /\ \E i, j \in DOMAIN searches :
          /\ searches[i].json.errors
          /\ searches[j].st = "done"
          /\ searches[j].json.facets # {}

\* C6: chunkify is never called with an empty set of signatures.
ChunkifyNeverEmpty ==
    \A k \in DOMAIN called : called[k] # {}

\* C7: from the call of get_stats on, data['signatures'] is a subset of the
\* set get_stats was called with, and no step adds a signature to it.
MonotonicShrink ==
    /\ [](called # <<>> => data.signatures \subseteq Universe)
    /\ [][called # <<>> => data'.signatures \subseteq data.signatures]_vars

\* C7 witness: every search is done and the set has lost some of its signatures.
ShrinkWitness ==
    /\ pc = "done"
    /\ data.signatures # Universe
    /\ data.signatures # {}

\* C8 as claimed: no split of the signatures that are not longer than M into
\* batches of at most M uses fewer batches than chunkify returns.
MinimumBatchCount ==
    pc = "returned" =>
        \A k \in 1..(Len(chunks) - 1) : ~CanPack(Fitting, k)

\* C8 as amended: chunkify packs first-fit: no signature of a chunk is
\* shorter than the capacity left in an earlier chunk (and so the number of
\* chunks need not be the smallest).
FirstFitBatches ==
    pc = "returned" =>
        \A i, j \in DOMAIN chunks :
            i < j => \A s \in Terms(chunks[j]) : len(s) >= M - SumLen(chunks[i])

\* C8 witness: chunkify returned more chunks than the signatures need.
FirstFitWitness ==
    /\ pc = "returned"
    /\ \E k \in 1..(Len(chunks) - 1) : CanPack(Fitting, k)

\* C9: when no search reports an error, whatever the order of the handlers
\* and of their removals, no removal fails, and the final set is the set
\* get_stats was called with minus the terms of all the answers; the mapping
\* returned is the one decided on that set.
OrderIndependence ==
    /\ \A i \in DOMAIN searches : searches[i].st # "KeyError"
    /\ exc # "KeyError"
    /\ pc = "done" =>
          /\ data.signatures = Universe \ Crashed
          /\ DOMAIN bugs =
                {str(b) : b \in {x \in DOMAIN data.ids :
                                    ProperSubset(data.ids[x], Universe \ Crashed)}}

\* C9 witness: get_bugs returned after two searches each removed a signature.
OrderWitness ==
    /\ pc = "done"
    /\ \E i, j \in DOMAIN searches :
          i # j /\ searches[i].json.facets # {} /\ searches[j].json.facets # {}

\* C10: chunkify returns only if a signature of its argument is not longer
\* than M; called with signatures that are all longer, get_stats ends with
\* ValueError before any search is made and get_bugs returns no mapping.
OversizedOnlyAborts ==
    called # <<>> =>
        /\ (\A s \in Universe : len(s) > M) =>
              pc = "failed" /\ exc = "ValueError" /\ searches = <<>> /\ bugs = <<>>
        /\ pc \in {"resolve", "done"} => Fitting # {}

\* C10 witness: get_stats failed on a non-empty set of oversized signatures.
OversizedWitness ==
    /\ pc = "failed"
    /\ called # <<>>
    /\ Universe # {}
    /\ \A s \in Universe : len(s) > M

====
